---- MODULE Spec2Model ----
(***************************************************************************)
(* A model of mhilton/sqltemplate: the escaping rewrite pass over          *)
(* text/template parse trees (escape.go), the PostgreSQL literal encoder   *)
(* (postgres.go) and the Template facade (template.go).                    *)
(*                                                                         *)
(* Strings are sequences of one-character strings, so that quoting and     *)
(* formatting are computed character by character.                         *)
(***************************************************************************)
EXTENDS Integers, Sequences, FiniteSets, TLC

VARIABLES
    \* escapeTree on one parse tree
    orig,       \* the tree as the parser produced it
    prev,       \* the tree before the last escapeTree pass
    tree,       \* the tree now (escapeTree mutates it in place)
    phase,      \* "parsed", "escaped" (one pass), "reescaped" (two passes)
    \* PostgresLiteral on one value
    val,        \* the value passed in
    res,        \* what the call returned, NotCalled before it
    \* the Template facade
    heap,       \* the parse.Tree objects, by address (1..Len(heap))
    tmpls,      \* the text/template.Template objects, by address
    nss,        \* the name spaces (common.tmpl): name -> address, 0 when absent
    owned,      \* addresses of the trees the caller parsed with text/template
    zero,       \* the caller's `var z Template`: its text field, 0 while nil
    last        \* the last call: its receiver, what it returned, its error

escVars == <<orig, prev, tree, phase>>

litVars == <<val, res>>

facVars == <<heap, tmpls, nss, owned, zero, last>>

vars == <<orig, prev, tree, phase, val, res, heap, tmpls, nss, owned, zero, last>>

(***************************************************************************)
(* text/template/parse nodes, as escape.go reads them.                     *)
(***************************************************************************)
DotNode == [type |-> "Dot"]

VariableNode(name) == [type |-> "Variable", Ident |-> name]

IdentifierNode(name, pos) == [type |-> "Identifier", Ident |-> name, Pos |-> pos]

CommandNode(args, pos) == [type |-> "Command", Args |-> args, Pos |-> pos]

PipeNode(decl, cmds) == [type |-> "Pipe", Decl |-> decl, Cmds |-> cmds]

TextNode(text) == [type |-> "Text", Text |-> text]

ActionNode(pipe) == [type |-> "Action", Pipe |-> pipe]

\* {{template "name" pipe}}
TemplateNode(name, pipe) == [type |-> "Template", Name |-> name, Pipe |-> pipe]

ListNode(nodes) == [type |-> "List", isNil |-> FALSE, Nodes |-> nodes]

\* (*parse.ListNode)(nil): the ElseList of a control node without {{else}}
NilList == [type |-> "List", isNil |-> TRUE, Nodes |-> <<>>]

\* IfNode, RangeNode, WithNode (kind is "If", "Range" or "With")
BranchNode(kind, pipe, list, elseList) ==
    [type |-> kind, Pipe |-> pipe, List |-> list, ElseList |-> elseList]

\* parse.Tree: Root is a ListNode, or NilList when Root == nil
Tree(root) == [Root |-> root]

(***************************************************************************)
(* escape.go                                                               *)
(***************************************************************************)
\* the command escapeNode appends: NodeType and Args only, so Pos is zero;
\* the identifier takes the position of the command that was last
SqlliteralCommand(cmd) ==
    CommandNode(<<IdentifierNode("sqlliteral", cmd.Pos)>>, 0)

\* the test of escape.go:43 on the last command of a pipe
IsSqlliteral(cmd) ==
    /\ Len(cmd.Args) = 1
    /\ cmd.Args[1].type = "Identifier"
    /\ cmd.Args[1].Ident = "sqlliteral"

\* an escapePipe without the test for an existing sqlliteral
escapePipeAlways(v) ==
    IF Len(v.Decl) > 0 THEN v
    ELSE IF Len(v.Cmds) < 1 THEN v
    ELSE [v EXCEPT !.Cmds = Append(@, SqlliteralCommand(v.Cmds[Len(v.Cmds)]))]

\* an escapePipe without the test for declared variables
escapePipeDecl(v) ==
    IF Len(v.Cmds) < 1 THEN v
    ELSE LET cmd == v.Cmds[Len(v.Cmds)]
         IN  IF IsSqlliteral(cmd) THEN v
             ELSE [v EXCEPT !.Cmds = Append(@, SqlliteralCommand(cmd))]

\* an escapePipe that looks for sqlliteral in the first command
escapePipeTestsFirst(v) ==
    IF Len(v.Decl) > 0 THEN v
    ELSE IF Len(v.Cmds) < 1 THEN v
    ELSE IF IsSqlliteral(v.Cmds[1]) THEN v
    ELSE [v EXCEPT !.Cmds = Append(@, SqlliteralCommand(v.Cmds[Len(v.Cmds)]))]

\* an escapePipe that puts sqlliteral in the place of the last command
escapePipeReplaceLast(v) ==
    IF Len(v.Decl) > 0 THEN v
    ELSE IF Len(v.Cmds) < 1 THEN v
    ELSE LET cmd == v.Cmds[Len(v.Cmds)]
         IN  IF IsSqlliteral(cmd) THEN v
             ELSE [v EXCEPT !.Cmds[Len(v.Cmds)] = SqlliteralCommand(cmd)]

\* case *parse.PipeNode
escapePipe(v) ==
    IF Len(v.Decl) > 0 THEN v
    ELSE IF Len(v.Cmds) < 1 THEN v
    ELSE LET cmd == v.Cmds[Len(v.Cmds)]
         IN  IF IsSqlliteral(cmd) THEN v
             ELSE [v EXCEPT !.Cmds = Append(@, SqlliteralCommand(cmd))]

RECURSIVE escapeNode(_)
\* an escapeNode that forgets the else-bodies
escapeNodeNoElse(n) ==
    CASE n.type = "Action" -> [n EXCEPT !.Pipe = escapeNode(@)]
      [] n.type \in {"If", "Range", "With"} -> [n EXCEPT !.List = escapeNode(@)]
      [] n.type = "List" ->
            IF n.isNil THEN n
            ELSE [n EXCEPT !.Nodes = [i \in DOMAIN n.Nodes |-> escapeNode(n.Nodes[i])]]
      [] n.type = "Pipe" -> escapePipe(n)
      [] OTHER -> n

\* an escapeNode that also descends into the pipe of if, range and with
escapeNodeConditions(n) ==
    CASE n.type = "Action" -> [n EXCEPT !.Pipe = escapeNode(@)]
      [] n.type \in {"If", "Range", "With"} ->
            [n EXCEPT !.Pipe = escapeNode(@), !.List = escapeNode(@),
                      !.ElseList = escapeNode(@)]
      [] n.type = "List" ->
            IF n.isNil THEN n
            ELSE [n EXCEPT !.Nodes = [i \in DOMAIN n.Nodes |-> escapeNode(n.Nodes[i])]]
      [] n.type = "Pipe" -> escapePipe(n)
      [] OTHER -> n

escapeNode(n) ==
    CASE n.type = "Action" -> [n EXCEPT !.Pipe = escapeNode(@)]
      [] n.type \in {"If", "Range", "With"} ->
            [n EXCEPT !.List = escapeNode(@), !.ElseList = escapeNode(@)]
      [] n.type = "List" ->
            IF n.isNil THEN n
            ELSE [n EXCEPT !.Nodes = [i \in DOMAIN n.Nodes |-> escapeNode(n.Nodes[i])]]
      [] n.type = "Pipe" -> escapePipe(n)
      [] OTHER -> n

escapeTree(t) ==
    IF t.Root.isNil THEN t ELSE [t EXCEPT !.Root = escapeNode(@)]

(***************************************************************************)
(* Go values handed to the encoder.  type is the Go type name as %T prints *)
(* it; isNil marks a nil pointer or nil slice; the payload is str (string, *)
(* RawSQL, Identifier), bytes ([]byte), num (integers; a float64 in halves;*)
(* a time's nanoseconds), off (a time's zone offset in minutes), flag      *)
(* (bool), fclass (float64: "finite", "+Inf", "-Inf", "NaN").  A value     *)
(* that implements driver.Valuer carries the wrapper's type name in valuer *)
(* and what Value() returns: the rest of the record, and the error verr.   *)
(***************************************************************************)
NoErr == "<nil>"

GoValue(type, isNil, str, bytes, num, off, flag, fclass) ==
    [type |-> type, isNil |-> isNil, str |-> str, bytes |-> bytes, num |-> num,
     off |-> off, flag |-> flag, fclass |-> fclass, valuer |-> "", verr |-> NoErr]

NilValue == GoValue("nil", TRUE, <<>>, <<>>, 0, 0, FALSE, "")

StrValue(type, s) == GoValue(type, FALSE, s, <<>>, 0, 0, FALSE, "")

IntValue(type, n) == GoValue(type, FALSE, <<>>, <<>>, n, 0, FALSE, "")

BoolValue(type, b) == GoValue(type, FALSE, <<>>, <<>>, 0, 0, b, "")

FloatValue(type, class, halves) == GoValue(type, FALSE, <<>>, <<>>, halves, 0, FALSE, class)

BytesValue(bs) == GoValue("[]uint8", FALSE, <<>>, bs, 0, 0, FALSE, "")

TimeValue(type, nanos, offset) == GoValue(type, FALSE, <<>>, <<>>, nanos, offset, FALSE, "")

\* a nil pointer of the given pointer type, or a nil slice
NilOf(type) == GoValue(type, TRUE, <<>>, <<>>, 0, 0, FALSE, "")

\* a value of a type the encoder has no case for
OtherValue(type) == GoValue(type, FALSE, <<>>, <<>>, 0, 0, FALSE, "")

\* a driver.Valuer of type wrapper whose Value() returns (v, err)
Valuer(wrapper, v, err) == [v EXCEPT !.valuer = wrapper, !.verr = err]

\* what dv.Value() returns as the value
ValueOf(dv) == [dv EXCEPT !.valuer = "", !.verr = NoErr]

(***************************************************************************)
(* fmt and strings, character by character.                                *)
(***************************************************************************)
\* the concatenation of a sequence of sequences
RECURSIVE Flatten(_)
Flatten(ss) == IF ss = <<>> THEN <<>> ELSE Head(ss) \o Flatten(Tail(ss))

DigitChars == <<"0", "1", "2", "3", "4", "5", "6", "7", "8", "9">>

HexChars == <<"0", "1", "2", "3", "4", "5", "6", "7", "8", "9",
              "A", "B", "C", "D", "E", "F">>

RECURSIVE Digits(_)
Digits(n) ==
    IF n < 10 THEN <<DigitChars[n + 1]>>
    ELSE Digits(n \div 10) \o <<DigitChars[(n % 10) + 1]>>

\* a %d that loses the sign
FormatIntUnsigned(n) == IF n < 0 THEN Digits(-n) ELSE Digits(n)

\* fmt.Sprintf("%d", n)
FormatInt(n) == IF n < 0 THEN <<"-">> \o Digits(-n) ELSE Digits(n)

\* a %x: the digits above nine in lower case
FormatHexLower(bs) ==
    LET lower == <<"0", "1", "2", "3", "4", "5", "6", "7", "8", "9",
                   "a", "b", "c", "d", "e", "f">>
    IN  Flatten([i \in DOMAIN bs |->
                    <<lower[(bs[i] \div 16) + 1], lower[(bs[i] % 16) + 1]>>])

\* fmt.Sprintf("%X", bs): two upper-case digits for every byte
RECURSIVE FormatHex(_)
FormatHex(bs) ==
    IF bs = <<>> THEN <<>>
    ELSE <<HexChars[(Head(bs) \div 16) + 1], HexChars[(Head(bs) % 16) + 1]>>
         \o FormatHex(Tail(bs))

\* fmt.Sprintf("%g", f) for a finite f given in halves
FormatG(halves) ==
    LET a == IF halves < 0 THEN -halves ELSE halves
    IN  (IF halves < 0 THEN <<"-">> ELSE <<>>)
        \o Digits(a \div 2)
        \o (IF a % 2 = 1 THEN <<".", "5">> ELSE <<>>)

\* strings.ReplaceAll(s, old, new) for a one-character old
RECURSIVE ReplaceAll(_, _, _)
ReplaceAll(s, old, new) ==
    IF s = <<>> THEN <<>>
    ELSE (IF Head(s) = old THEN new ELSE <<Head(s)>>) \o ReplaceAll(Tail(s), old, new)

\* n in decimal, left-padded with zeros to w digits
RECURSIVE Pad(_, _)
Pad(n, w) == IF w = 0 THEN <<>> ELSE Pad(n \div 10, w - 1) \o <<DigitChars[(n % 10) + 1]>>

RECURSIVE TrimZeros(_)
TrimZeros(s) ==
    IF s # <<>> /\ s[Len(s)] = "0" THEN TrimZeros(SubSeq(s, 1, Len(s) - 1)) ELSE s

\* t.Format(time.RFC3339Nano) for 2020-02-02 12:30:45 plus nanos, in the
\* zone offset minutes from UTC
FormatTime(nanos, offset) ==
    LET a == IF offset < 0 THEN -offset ELSE offset
    IN  <<"2", "0", "2", "0", "-", "0", "2", "-", "0", "2", "T",
          "1", "2", ":", "3", "0", ":", "4", "5">>
        \o (IF nanos = 0 THEN <<>> ELSE <<".">> \o TrimZeros(Pad(nanos, 9)))
        \o (IF offset = 0 THEN <<"Z">>
            ELSE <<IF offset < 0 THEN "-" ELSE "+">>
                 \o Pad(a \div 60, 2) \o <<":">> \o Pad(a % 60, 2))

(***************************************************************************)
(* postgres.go                                                             *)
(***************************************************************************)
\* what PostgresLiteral returns, and the type its switch ran on ("" when
\* the switch was not reached)
Result(lit, err, on) == [lit |-> lit, err |-> err, on |-> on]

Null == <<"N", "U", "L", "L">>

\* quoting without doubling the embedded quotes
QuotedUndoubled(q, s) == <<q>> \o s \o <<q>>

Quoted(q, s) == <<q>> \o ReplaceAll(s, q, <<q, q>>) \o <<q>>

postgresLiteralBool(b) ==
    IF b THEN <<"T", "R", "U", "E">> ELSE <<"F", "A", "L", "S", "E">>

postgresLiteralFloat(f) ==
    CASE f.fclass = "+Inf" -> <<"'", "I", "n", "f", "i", "n", "i", "t", "y", "'">>
      [] f.fclass = "-Inf" -> <<"'", "-", "I", "n", "f", "i", "n", "i", "t", "y", "'">>
      [] f.fclass = "NaN" -> <<"'", "N", "a", "N", "'">>
      [] OTHER -> FormatG(f.num)

\* a pointer case without its nil check (the zero value is formatted)
NullOrUnchecked(v, lit) == lit

\* if v1 == nil { return RawSQL("NULL"), nil } in front of a pointer or
\* slice case
NullOr(v, lit) == IF v.isNil THEN Null ELSE lit

\* switch v1 := v.(type)
TypeSwitch(v) ==
    LET ok(lit) == Result(lit, NoErr, v.type)
    IN  CASE v.type = "sqltemplate.RawSQL" -> ok(v.str)
          [] v.type = "sqltemplate.Identifier" -> ok(Quoted("\"", v.str))
          [] v.type = "*bool" -> ok(NullOr(v, postgresLiteralBool(v.flag)))
          [] v.type = "bool" -> ok(postgresLiteralBool(v.flag))
          [] v.type = "[]uint8" ->
                ok(NullOr(v, <<"'", "\\", "x">> \o FormatHex(v.bytes) \o <<"'">>))
          [] v.type = "*float64" -> ok(NullOr(v, postgresLiteralFloat(v)))
          [] v.type = "float64" -> ok(postgresLiteralFloat(v))
          [] v.type = "*int" -> ok(NullOr(v, FormatInt(v.num)))
          [] v.type = "int" -> ok(FormatInt(v.num))
          [] v.type = "*int64" -> ok(NullOr(v, FormatInt(v.num)))
          [] v.type = "int64" -> ok(FormatInt(v.num))
          [] v.type = "nil" -> ok(Null)
          [] v.type = "*string" -> ok(NullOr(v, Quoted("'", v.str)))
          [] v.type = "string" -> ok(Quoted("'", v.str))
          [] v.type = "*time.Time" ->
                ok(NullOr(v, <<"'">> \o FormatTime(v.num, v.off) \o <<"'">>))
          [] v.type = "time.Time" -> ok(<<"'">> \o FormatTime(v.num, v.off) \o <<"'">>)
          [] OTHER -> Result(<<>>, "unknown type " \o v.type, v.type)

\* a PostgresLiteral that returns NULL next to the Valuer's error
PostgresLiteralPartial(v) ==
    IF v.valuer # ""
    THEN IF v.verr # NoErr THEN Result(Null, v.verr, "")
         ELSE TypeSwitch(ValueOf(v))
    ELSE TypeSwitch(v)

\* a PostgresLiteral without the driver.Valuer step: the switch runs on the
\* wrapper itself
PostgresLiteralNoValuer(v) ==
    IF v.valuer # ""
    THEN Result(<<>>, "unknown type " \o v.valuer, v.valuer)
    ELSE TypeSwitch(v)

\* a PostgresLiteral that quotes a RawSQL fragment as if it were a string
PostgresLiteralRawQuoted(v) ==
    IF v.valuer # ""
    THEN IF v.verr # NoErr THEN Result(<<>>, v.verr, "")
         ELSE TypeSwitch(ValueOf(v))
    ELSE IF v.type = "sqltemplate.RawSQL"
    THEN Result(Quoted("'", v.str), NoErr, v.type)
    ELSE TypeSwitch(v)

\* a PostgresLiteral that quotes an Identifier as if it were a string
PostgresLiteralIdentifierAsString(v) ==
    IF v.valuer # ""
    THEN IF v.verr # NoErr THEN Result(<<>>, v.verr, "")
         ELSE TypeSwitch(ValueOf(v))
    ELSE IF v.type = "sqltemplate.Identifier"
    THEN Result(Quoted("'", v.str), NoErr, v.type)
    ELSE TypeSwitch(v)

PostgresLiteral(v) ==
    IF v.valuer # ""
    THEN IF v.verr # NoErr THEN Result(<<>>, v.verr, "")
         ELSE TypeSwitch(ValueOf(v))
    ELSE TypeSwitch(v)

(***************************************************************************)
(* parse.Tree.Copy, node by node (text/template/parse node.go), as         *)
(* AddParseTree and the idempotence test use it.                           *)
(***************************************************************************)
RECURSIVE CopyNode(_)
CopyNode(n) ==
    CASE n.type = "Action" -> ActionNode(CopyNode(n.Pipe))
      [] n.type \in {"If", "Range", "With"} ->
            BranchNode(n.type, CopyNode(n.Pipe), CopyNode(n.List), CopyNode(n.ElseList))
      [] n.type = "List" ->
            IF n.isNil THEN NilList
            ELSE ListNode([i \in DOMAIN n.Nodes |-> CopyNode(n.Nodes[i])])
      [] n.type = "Pipe" ->
            PipeNode(n.Decl, [i \in DOMAIN n.Cmds |-> CopyNode(n.Cmds[i])])
      [] n.type = "Command" ->
            CommandNode([i \in DOMAIN n.Args |-> CopyNode(n.Args[i])], n.Pos)
      [] n.type = "Identifier" -> IdentifierNode(n.Ident, n.Pos)
      [] n.type = "Variable" -> VariableNode(n.Ident)
      [] n.type = "Text" -> TextNode(n.Text)
      [] OTHER -> n

CopyTree(t) == Tree(CopyNode(t.Root))

(***************************************************************************)
(* Execution of a parse tree by text/template (exec.go), as far as the     *)
(* templates of this model need it: text, actions, if/with/range, the      *)
(* variable $v, and the functions sqlliteral (funcs, template.go:16) and   *)
(* print.  The state of an execution is the output written so far, the     *)
(* error that stopped it (err; enc is the encoder's own error when that is *)
(* the cause), the variables, the value of the pipeline evaluated last,    *)
(* and one step per node evaluated.                                        *)
(***************************************************************************)
Missing == OtherValue("<missing>")

RawSQL(text) == StrValue("sqltemplate.RawSQL", text)

\* fmt.Sprint of one operand
Sprint(v) ==
    CASE v.valuer # "" -> <<"{", v.valuer, "}">>
      [] v.type \in {"string", "sqltemplate.RawSQL", "sqltemplate.Identifier"} -> v.str
      [] v.isNil -> <<"<", "n", "i", "l", ">">>
      [] v.type \in {"int", "int64", "uint8"} -> FormatInt(v.num)
      [] v.type = "[]uint8" ->
            <<"[">> \o Flatten([i \in DOMAIN v.bytes |->
                        (IF i > 1 THEN <<" ">> ELSE <<>>) \o FormatInt(v.bytes[i])])
            \o <<"]">>
      [] v.type = "struct {}" -> <<"{", "}">>
      [] OTHER -> <<"<", v.type, ">">>

\* printableValue followed by fmt.Fprint
PrintText(v) ==
    IF v.type = "nil" /\ v.valuer = ""
    THEN <<"<", "n", "o", " ", "v", "a", "l", "u", "e", ">">>
    ELSE Sprint(v)

\* isTrue
IsTrue(v) ==
    CASE v.valuer # "" -> TRUE
      [] v.isNil -> FALSE
      [] v.type \in {"string", "sqltemplate.RawSQL", "sqltemplate.Identifier"} ->
            v.str # <<>>
      [] v.type = "[]uint8" -> v.bytes # <<>>
      [] v.type \in {"bool"} -> v.flag
      [] v.type \in {"int", "int64", "uint8"} -> v.num # 0
      [] OTHER -> TRUE

Unset == OtherValue("<unset>")

StartState(data) ==
    [out |-> <<>>, err |-> NoErr, enc |-> NoErr, vars |-> [x \in {"$v"} |-> Unset],
     val |-> Missing, steps |-> <<>>]

Step(kind, wrote, enc) == [node |-> kind, wrote |-> wrote, enc |-> enc]

Fail(st, msg) == [st EXCEPT !.err = msg]

\* an evalCall whose sqlliteral hands back a plain string
CallFunctionReturningString(name, argv, st) ==
    LET Returned(r) ==
            IF r.err # NoErr
            THEN [st EXCEPT !.err = "error calling sqlliteral: " \o r.err,
                            !.enc = r.err]
            ELSE [st EXCEPT !.val = StrValue("string", r.lit)]
    IN  CASE name = "sqlliteral" ->
                IF Len(argv) # 1
                THEN Fail(st, "wrong number of args for sqlliteral")
                ELSE Returned(PostgresLiteral(argv[1]))
          [] name = "print" ->
                [st EXCEPT !.val =
                    StrValue("string", Flatten([i \in DOMAIN argv |-> Sprint(argv[i])]))]
          [] OTHER -> Fail(st, "function not defined")

\* an evalCall that goes on with an empty value when sqlliteral fails
CallFunctionIgnoringError(name, argv, st) ==
    LET Returned(r) == [st EXCEPT !.enc = r.err, !.val = RawSQL(r.lit)]
    IN  CASE name = "sqlliteral" ->
                IF Len(argv) # 1
                THEN Fail(st, "wrong number of args for sqlliteral")
                ELSE Returned(PostgresLiteral(argv[1]))
          [] name = "print" ->
                [st EXCEPT !.val =
                    StrValue("string", Flatten([i \in DOMAIN argv |-> Sprint(argv[i])]))]
          [] OTHER -> Fail(st, "function not defined")

\* evalCall, for the two functions of the model
CallFunction(name, argv, st) ==
    LET Returned(r) ==
            IF r.err # NoErr
            THEN [st EXCEPT !.err = "error calling sqlliteral: " \o r.err,
                            !.enc = r.err]
            ELSE [st EXCEPT !.val = RawSQL(r.lit)]
    IN  CASE name = "sqlliteral" ->
                IF Len(argv) # 1
                THEN Fail(st, "wrong number of args for sqlliteral")
                ELSE Returned(PostgresLiteral(argv[1]))
          [] name = "print" ->
                [st EXCEPT !.val =
                    StrValue("string", Flatten([i \in DOMAIN argv |-> Sprint(argv[i])]))]
          [] OTHER -> Fail(st, "function not defined")

RECURSIVE EvalPipeline(_, _, _)
RECURSIVE EvalCommand(_, _, _, _)
RECURSIVE EvalArgs(_, _, _)
RECURSIVE EvalCmds(_, _, _, _)

\* evalArg
EvalArg(arg, dot, st) ==
    CASE arg.type = "Dot" -> [st EXCEPT !.val = dot]
      [] arg.type = "Variable" -> [st EXCEPT !.val = st.vars[arg.Ident]]
      [] arg.type = "Pipe" -> EvalPipeline(arg, dot, st)
      [] arg.type = "Identifier" -> CallFunction(arg.Ident, <<>>, st)
      [] OTHER -> Fail(st, "can't handle argument")

\* the arguments of a call, left to right, stopping at the first error
EvalArgs(args, dot, st) ==
    LET Prepend(v, rest) == [st |-> rest.st, vals |-> <<v>> \o rest.vals]
        Then(r) == IF r.err # NoErr THEN [st |-> r, vals |-> <<>>]
                   ELSE Prepend(r.val, EvalArgs(Tail(args), dot, r))
    IN  IF args = <<>> THEN [st |-> st, vals |-> <<>>]
        ELSE Then(EvalArg(Head(args), dot, st))

\* evalCommand: final is the value piped in, Missing in the first stage
EvalCommand(cmd, dot, final, st) ==
    LET first == cmd.Args[1]
        piped == IF final = Missing THEN <<>> ELSE <<final>>
        Call(a) == IF a.st.err # NoErr THEN a.st
                   ELSE CallFunction(first.Ident, a.vals \o piped, a.st)
    IN  IF first.type = "Identifier"
        THEN Call(EvalArgs(Tail(cmd.Args), dot, st))
        ELSE IF Len(cmd.Args) > 1 \/ final # Missing
        THEN Fail(st, "can't give argument to non-function")
        ELSE EvalArg(first, dot, st)

\* the commands of a pipeline in order, each given the value of the one before
EvalCmds(cmds, dot, final, st) ==
    LET Then(r) == IF r.err # NoErr THEN r
                   ELSE EvalCmds(Tail(cmds), dot, r.val, r)
    IN  IF cmds = <<>> THEN [st EXCEPT !.val = final]
        ELSE Then(EvalCommand(Head(cmds), dot, final, st))

\* evalPipeline: the commands in order, then the declared variables are set
EvalPipeline(pipe, dot, st) ==
    LET Declare(r) ==
            IF r.err # NoErr THEN r
            ELSE [r EXCEPT !.vars =
                    [x \in DOMAIN r.vars |->
                        IF \E i \in DOMAIN pipe.Decl : pipe.Decl[i] = x
                        THEN r.val ELSE r.vars[x]]]
    IN  Declare(EvalCmds(pipe.Cmds, dot, Missing, st))

RECURSIVE Walk(_, _, _)
RECURSIVE WalkNodes(_, _, _)
RECURSIVE WalkElems(_, _, _, _)

\* walk of the nodes of a list, stopping at the first error
WalkNodes(nodes, dot, st) ==
    IF nodes = <<>> \/ st.err # NoErr THEN st
    ELSE WalkNodes(Tail(nodes), dot, Walk(Head(nodes), dot, st))

\* walkRange over the elements of a slice
WalkElems(n, elems, dot, st) ==
    LET bound == [st EXCEPT !.vars =
                    [x \in DOMAIN st.vars |->
                        IF \E i \in DOMAIN n.Pipe.Decl : n.Pipe.Decl[i] = x
                        THEN Head(elems) ELSE st.vars[x]]]
        Pop(r) == [r EXCEPT !.vars = st.vars]
    IN  IF elems = <<>> \/ st.err # NoErr THEN st
        ELSE WalkElems(n, Tail(elems), dot, Pop(Walk(n.List, Head(elems), bound)))

\* the node at which the execution stopped, with nothing written
Stopped(r, kind) == [r EXCEPT !.steps = Append(@, Step(kind, <<>>, r.enc))]

Walk(n, dot, st) ==
    LET Entered(r) == [r EXCEPT !.steps = Append(@, Step(n.type, <<>>, NoErr))]
        Pop(b) == [b EXCEPT !.vars = st.vars]
        Elems(v) == [i \in DOMAIN v.bytes |-> IntValue("uint8", v.bytes[i])]
        WalkAction(r) ==
            IF r.err # NoErr THEN Stopped(r, "Action")
            ELSE IF Len(n.Pipe.Decl) > 0
            THEN [r EXCEPT !.steps = Append(@, Step("Action", <<>>, NoErr))]
            ELSE [r EXCEPT !.out = @ \o PrintText(r.val),
                           !.steps = Append(@, Step("Action", PrintText(r.val), NoErr))]
        WalkIfOrWith(r) ==
            IF r.err # NoErr THEN Stopped(r, n.type)
            ELSE IF IsTrue(r.val)
            THEN Pop(Walk(n.List, IF n.type = "With" THEN r.val ELSE dot, Entered(r)))
            ELSE Pop(Walk(n.ElseList, dot, Entered(r)))
        WalkRange(r) ==
            IF r.err # NoErr THEN Stopped(r, "Range")
            ELSE IF r.val.type = "[]uint8" /\ r.val.valuer = "" /\ Elems(r.val) # <<>>
            THEN Pop(WalkElems(n, Elems(r.val), dot, Entered(r)))
            ELSE IF r.val.type \in {"[]uint8", "nil"} /\ r.val.valuer = ""
            THEN Pop(Walk(n.ElseList, dot, Entered(r)))
            ELSE Pop(Fail(Entered(r), "range can't iterate over value"))
    IN  IF st.err # NoErr THEN st
        ELSE CASE n.type = "Text" ->
                    [st EXCEPT !.out = @ \o n.Text,
                               !.steps = Append(@, Step("Text", n.Text, NoErr))]
               [] n.type = "Action" -> WalkAction(EvalPipeline(n.Pipe, dot, st))
               [] n.type = "List" ->
                    IF n.isNil THEN st ELSE WalkNodes(n.Nodes, dot, st)
               [] n.type \in {"If", "With"} -> WalkIfOrWith(EvalPipeline(n.Pipe, dot, st))
               [] n.type = "Range" -> WalkRange(EvalPipeline(n.Pipe, dot, st))
               [] OTHER -> st

\* (*text/template.Template).Execute on a tree
ExecuteTree(t, data) ==
    IF t.Root.isNil
    THEN Fail(StartState(data), "incomplete or empty template")
    ELSE Walk(t.Root, data, StartState(data))

(***************************************************************************)
(* The parse trees escapeTree is run on.  A pipe is any sequence of at     *)
(* most MaxCmds commands the parser accepts (a bare dot only in the first  *)
(* stage), with or without a variable declaration.  A tree puts one such   *)
(* pipe in an action, alone or followed by a second action, at the root or *)
(* under at most MaxDepth levels of if/range/with, in the body, in the     *)
(* else-body, or in an else-if chain.                                      *)
(***************************************************************************)
MaxCmds == 2

MaxDepth == 1

\* `(.)`: a parenthesised pipeline used as an argument
SubPipe == PipeNode(<<>>, <<CommandNode(<<DotNode>>, 1)>>)

CmdShapes == {"dot", "print", "sqlliteral", "sqlliteral (.)"}

ArgsOf(shape, pos) ==
    CASE shape = "dot" -> <<DotNode>>
      [] shape = "print" -> <<IdentifierNode("print", pos)>>
      [] shape = "sqlliteral" -> <<IdentifierNode("sqlliteral", pos)>>
      [] shape = "sqlliteral (.)" -> <<IdentifierNode("sqlliteral", pos), SubPipe>>

CmdSeqs ==
    { s \in UNION { [1..n -> CmdShapes] : n \in 0..MaxCmds } :
        \A i \in DOMAIN s : i > 1 => s[i] # "dot" }

DeclSet == { <<>>, <<"$v">> }

PipeSet ==
    { PipeNode(d, [i \in DOMAIN s |-> CommandNode(ArgsOf(s[i], i), i)]) :
        d \in DeclSet, s \in CmdSeqs }

\* `.` and `$v`
DotPipe == PipeNode(<<>>, <<CommandNode(<<DotNode>>, 1)>>)

VarPipe == PipeNode(<<>>, <<CommandNode(<<VariableNode("$v")>>, 1)>>)

Kinds == {"If", "Range", "With"}

\* {{p}} and {{p}}{{$v}} (or {{p}}{{.}} when p declares no variable)
Leaf(p) ==
    { <<ActionNode(p)>>,
      <<ActionNode(p), ActionNode(IF Len(p.Decl) > 0 THEN VarPipe ELSE DotPipe)>> }

OtherBody ==
    ListNode(<<TextNode(<<"t">>), ActionNode(DotPipe), TemplateNode("x", DotPipe)>>)

\* one more level of control structure around the lists of S
Level(S, p) ==
    { <<BranchNode(k, p, ListNode(l), e)>> :
        k \in Kinds, l \in S, e \in {NilList, OtherBody} }
    \cup { <<BranchNode(k, p, OtherBody, ListNode(l))>> : k \in Kinds, l \in S }
    \cup { <<BranchNode("If", p, OtherBody,
                ListNode(<<BranchNode("If", DotPipe, ListNode(l), OtherBody)>>))>> :
             l \in S }
    \cup { <<BranchNode("If", p, ListNode(<<>>),
                ListNode(<<BranchNode("If", DotPipe, OtherBody, ListNode(l))>>))>> :
             l \in S }

RECURSIVE Bodies(_, _)
Bodies(d, p) ==
    IF d = 0 THEN Leaf(p) ELSE Leaf(p) \cup Level(Bodies(d - 1, p), p)

\* the lists that put the pipe p somewhere, and the empty tree
Roots(p) == { ListNode(l) : l \in Bodies(MaxDepth, p) }

\* the variables of the other state machines, at rest
NotCalled == [lit |-> <<>>, err |-> NoErr, on |-> "not called"]

LiteralIdle == val = NilValue /\ res = NotCalled

\* what an execution left behind, before any
NotRun == [out |-> <<>>, err |-> NoErr, enc |-> NoErr, steps |-> <<>>]

NoCall == [op |-> "none", ret |-> 0, err |-> NoErr, data |-> NilValue, run |-> NotRun]

FacadeIdle ==
    /\ heap = <<>>
    /\ tmpls = <<>>
    /\ nss = <<>>
    /\ owned = {}
    /\ zero = 0
    /\ last = NoCall

EscapeIdle ==
    /\ orig = Tree(NilList)
    /\ prev = orig
    /\ tree = orig
    /\ phase = "idle"

(***************************************************************************)
(* escapeTree as a state machine: a parsed tree is escaped, then escaped   *)
(* again, in place or on a copy.                                           *)
(***************************************************************************)
InitEscape ==
    /\ \/ orig = Tree(NilList)
       \/ \E p \in PipeSet : \E root \in Roots(p) : orig = Tree(root)
    /\ prev = orig
    /\ tree = orig
    /\ phase = "parsed"
    /\ LiteralIdle
    /\ FacadeIdle

NextPhase(ph) == IF ph = "parsed" THEN "escaped" ELSE "reescaped"

\* escapeTree(t)
Escape ==
    /\ phase \in {"parsed", "escaped"}
    /\ prev' = tree
    /\ tree' = escapeTree(tree)
    /\ phase' = NextPhase(phase)
    /\ UNCHANGED <<orig, litVars, facVars>>

\* t2 := t1.Copy(); escapeTree(t2)
EscapeCopy ==
    /\ phase = "escaped"
    /\ prev' = tree
    /\ tree' = escapeTree(CopyTree(tree))
    /\ phase' = "reescaped"
    /\ UNCHANGED <<orig, litVars, facVars>>

NextEscape == Escape \/ EscapeCopy

SpecEscape == InitEscape /\ [][NextEscape]_vars

(***************************************************************************)
(* Vocabulary of the claims about escapeTree.                              *)
(***************************************************************************)
\* the pipes of the actions reachable from n through lists, bodies and
\* else-bodies, in source order
RECURSIVE ActionPipes(_)
ActionPipes(n) ==
    CASE n.type = "Action" -> <<n.Pipe>>
      [] n.type \in {"If", "Range", "With"} ->
            ActionPipes(n.List) \o ActionPipes(n.ElseList)
      [] n.type = "List" ->
            Flatten([i \in DOMAIN n.Nodes |-> ActionPipes(n.Nodes[i])])
      [] OTHER -> <<>>

\* an action pipe whose value is written to the output
OutputProducing(p) == Len(p.Decl) = 0 /\ Len(p.Cmds) >= 1

\* how many commands at the end of cmds are a bare sqlliteral
RECURSIVE TrailingSqlliterals(_)
TrailingSqlliterals(cmds) ==
    IF cmds = <<>> \/ ~IsSqlliteral(cmds[Len(cmds)]) THEN 0
    ELSE 1 + TrailingSqlliterals(SubSeq(cmds, 1, Len(cmds) - 1))

EndsWithSqlliteral(p) == Len(p.Cmds) >= 1 /\ IsSqlliteral(p.Cmds[Len(p.Cmds)])

\* C2: escapeTree is idempotent: a second pass over an escaped tree, or over
\* a copy of it, leaves a tree equal to the escaped one (no pipe grows).
EscapeIdempotent == phase = "reescaped" => tree = prev

\* a tree the first pass changed has been through a second pass
EscapeIdempotentWitness ==
    /\ phase = "reescaped"
    /\ prev # orig
    /\ Len(ActionPipes(tree.Root)) >= 2

\* C3 as stated: after escapeTree every output-producing action pipe ends
\* with exactly one sqlliteral command.
ExactlyOneSqlliteral ==
    phase # "parsed" =>
        LET after == ActionPipes(tree.Root)
        IN  \A i \in DOMAIN after :
                OutputProducing(after[i]) => TrailingSqlliterals(after[i].Cmds) = 1

\* C3 amended: after escapeTree every output-producing action pipe ends with
\* a sqlliteral command, and escapeTree appended at most one: the pipe ends
\* with exactly one sqlliteral unless it was written with more, and then it
\* is left as written.
CoverageExhaustive ==
    phase # "parsed" =>
        LET before == ActionPipes(orig.Root)
            after == ActionPipes(tree.Root)
        IN  /\ Len(after) = Len(before)
            /\ \A i \in DOMAIN after :
                OutputProducing(after[i]) =>
                    /\ EndsWithSqlliteral(after[i])
                    /\ \/ TrailingSqlliterals(after[i].Cmds) = 1
                       \/ /\ TrailingSqlliterals(before[i].Cmds) > 1
                          /\ after[i] = before[i]

\* an escaped tree with an else-if chain whose innermost action gained its
\* sqlliteral
CoverageExhaustiveWitness ==
    /\ phase = "escaped"
    /\ Len(tree.Root.Nodes) = 1
    /\ tree.Root.Nodes[1].type = "If"
    /\ ~tree.Root.Nodes[1].ElseList.isNil
    /\ tree.Root.Nodes[1].ElseList.Nodes[1].type = "If"
    /\ \E i \in DOMAIN ActionPipes(tree.Root) :
        /\ ~EndsWithSqlliteral(ActionPipes(orig.Root)[i])
        /\ EndsWithSqlliteral(ActionPipes(tree.Root)[i])
    /\ \A i \in DOMAIN ActionPipes(tree.Root) :
        OutputProducing(ActionPipes(tree.Root)[i])

(***************************************************************************)
(* PostgresLiteral as a state machine: one value, one call.                *)
(***************************************************************************)
MaxStrLen == 2

MaxInt == 12

MaxBytes == 2

Chars == {"a", "'", "\"", ";"}

Strings == UNION { [1..n -> Chars] : n \in 0..MaxStrLen }

ByteSeqs == UNION { [1..n -> {0, 116, 255}] : n \in 0..MaxBytes }

Ints == (-MaxInt)..MaxInt

FloatClasses == {"finite", "+Inf", "-Inf", "NaN"}

\* float64 values: the three non-finite ones, and -1.5 .. 1.5 in halves
Floats(type) ==
    { FloatValue(type, c, 0) : c \in FloatClasses \ {"finite"} }
    \cup { FloatValue(type, "finite", h) : h \in (-3)..3 }

Times(type) == { TimeValue(type, n, o) : n \in {0, 5, 300001000}, o \in {0, -180, 330} }

\* types the switch of PostgresLiteral has no case for
OtherTypes ==
    {"chan bool", "int8", "int16", "int32", "uint", "*sqltemplate.RawSQL",
     "*sqltemplate.Identifier", "*int32"}

PointerTypes ==
    {"*bool", "*float64", "*int", "*int64", "*string", "*time.Time",
     "*sqltemplate.RawSQL", "*sqltemplate.Identifier", "*int32"}

PlainValues ==
    { NilValue }
    \cup { StrValue(t, x) :
            t \in {"string", "*string", "sqltemplate.RawSQL", "sqltemplate.Identifier"},
            x \in Strings }
    \cup { IntValue(t, n) :
            t \in {"int", "int64", "*int", "*int64", "int8", "int16", "int32"},
            n \in Ints }
    \cup { BoolValue(t, b) : t \in {"bool", "*bool"}, b \in BOOLEAN }
    \cup Floats("float64") \cup Floats("*float64")
    \cup { BytesValue(bs) : bs \in ByteSeqs }
    \cup Times("time.Time") \cup Times("*time.Time")
    \cup { NilOf(t) : t \in PointerTypes \cup {"[]uint8"} }
    \cup { OtherValue(t) : t \in {"chan bool", "uint"} }

\* what the Valuers of the model resolve to
ResolvedValues ==
    { NilValue, StrValue("string", <<"a", "'">>), IntValue("int64", -7),
      TimeValue("time.Time", 300005000, -180), BytesValue(<<116>>),
      BoolValue("bool", TRUE), FloatValue("float64", "finite", 3),
      StrValue("sqltemplate.RawSQL", <<"'", ";">>), OtherValue("chan bool"),
      IntValue("int32", 3), NilOf("*string") }

ValuerErrors == {"sql: conversion failed"}

Valuers ==
    { Valuer("sql.NullTime", v, NoErr) : v \in ResolvedValues }
    \cup { Valuer("sql.NullTime", NilValue, e) : e \in ValuerErrors }

ValueSet == PlainValues \cup Valuers

InitLiteral ==
    /\ val \in ValueSet
    /\ res = NotCalled
    /\ EscapeIdle
    /\ FacadeIdle

\* s, err := PostgresLiteral(v)
CallPostgresLiteral ==
    /\ res = NotCalled
    /\ res' = PostgresLiteral(val)
    /\ UNCHANGED <<val, escVars, facVars>>

NextLiteral == CallPostgresLiteral

SpecLiteral == InitLiteral /\ [][NextLiteral]_vars

(***************************************************************************)
(* Vocabulary of the claims about PostgresLiteral.                         *)
(***************************************************************************)
Called == res # NotCalled

Count(s, c) == Cardinality({ i \in DOMAIN s : s[i] = c })

\* every q of s is one of an adjacent pair
RECURSIVE Paired(_, _)
Paired(s, q) ==
    IF s = <<>> THEN TRUE
    ELSE IF Head(s) # q THEN Paired(Tail(s), q)
    ELSE Len(s) >= 2 /\ s[2] = q /\ Paired(Tail(Tail(s)), q)

\* s with every pair qq read as one q
RECURSIVE Undouble(_, _)
Undouble(s, q) ==
    IF s = <<>> THEN <<>>
    ELSE IF Head(s) = q /\ Len(s) >= 2 /\ s[2] = q
         THEN <<q>> \o Undouble(Tail(Tail(s)), q)
         ELSE <<Head(s)>> \o Undouble(Tail(s), q)

Inner(lit) == SubSeq(lit, 2, Len(lit) - 1)

IsDigit(c) == \E d \in 1..10 : DigitChars[d] = c

DigitValue(c) == (CHOOSE d \in 1..10 : DigitChars[d] = c) - 1

RECURSIVE DecimalValue(_)
DecimalValue(s) ==
    IF s = <<>> THEN 0
    ELSE 10 * DecimalValue(SubSeq(s, 1, Len(s) - 1)) + DigitValue(s[Len(s)])

\* lit is n in decimal: digits only, no leading zero, a minus sign exactly
\* when n is negative
IsDecimalOf(lit, n) ==
    LET body == IF lit # <<>> /\ lit[1] = "-" THEN Tail(lit) ELSE lit
    IN  /\ lit # <<>>
        /\ (lit[1] = "-") <=> (n < 0)
        /\ body # <<>>
        /\ \A i \in DOMAIN body : IsDigit(body[i])
        /\ body[1] = "0" => Len(body) = 1
        /\ DecimalValue(body) = (IF n < 0 THEN -n ELSE n)

\* C5: for a text string s PostgresLiteral succeeds and returns ' then s
\* with every ' doubled then ': between the outer quotes the quotes come in
\* adjacent pairs only, and reading each pair as one quote gives back s.
StringLiteralQuoted ==
    (Called /\ val.valuer = "" /\ val.type = "string") =>
        /\ res.err = NoErr
        /\ Len(res.lit) = Len(val.str) + Count(val.str, "'") + 2
        /\ res.lit[1] = "'"
        /\ res.lit[Len(res.lit)] = "'"
        /\ Paired(Inner(res.lit), "'")
        /\ Undouble(Inner(res.lit), "'") = val.str

\* a string with a quote in it has been encoded
StringLiteralQuotedWitness ==
    /\ Called
    /\ val = StrValue("string", <<"a", "'">>)
    /\ res.lit = <<"'", "a", "'", "'", "'">>

\* the types of the values PostgresLiteral is documented and tested to
\* encode (postgres.go doc comment, postgresLiteralTests)
SupportedTypes ==
    {"nil", "string", "*string", "sqltemplate.RawSQL", "sqltemplate.Identifier",
     "bool", "*bool", "[]uint8", "float64", "*float64", "int", "*int",
     "int64", "*int64", "time.Time", "*time.Time"}

ResolutionFails == val.valuer # "" /\ val.verr # NoErr

\* C7: PostgresLiteral fails only when Valuer resolution fails or the
\* resolved value's type is not a supported one; then the error is
\* "unknown type <type>", and every failure comes with an empty literal.
FailsOnlyUnsupported ==
    Called =>
        /\ (res.err # NoErr) <=> (ResolutionFails \/ val.type \notin SupportedTypes)
        /\ (~ResolutionFails /\ val.type \notin SupportedTypes) =>
                res.err = "unknown type " \o val.type
        /\ res.err # NoErr => res.lit = <<>>

\* a channel has been refused
FailsOnlyUnsupportedWitness ==
    /\ Called
    /\ val = OtherValue("chan bool")
    /\ res.err = "unknown type chan bool"
    /\ res.lit = <<>>

\* C8: a driver.Valuer is resolved before the type switch, which then runs
\* on the resolved value; an error of Value() is returned as it is, with an
\* empty literal and without reaching the switch.
ValuerResolvedFirst ==
    (Called /\ val.valuer # "") =>
        IF val.verr # NoErr
        THEN res = Result(<<>>, val.verr, "")
        ELSE /\ res.on = val.type
             /\ res = TypeSwitch(ValueOf(val))

\* a Valuer whose Value() fails has been encoded
ValuerResolvedFirstWitness ==
    /\ Called
    /\ val.valuer = "sql.NullTime"
    /\ val.verr = "sql: conversion failed"
    /\ res.err = "sql: conversion failed"

\* C9 as stated: NULL for the absent value and for a nil pointer (or nil
\* slice) of every supported kind, RawSQL and Identifier included.
NullForEveryNil ==
    (Called /\ val.valuer = "" /\ val.isNil
        /\ val.type \in {"nil", "*bool", "*int", "*int64", "*float64", "[]uint8",
                         "*string", "*time.Time", "*sqltemplate.RawSQL",
                         "*sqltemplate.Identifier"}) =>
        res.err = NoErr /\ res.lit = Null

\* C9 amended: NULL for the absent value, a nil byte slice and a nil pointer
\* to bool, int, int64, float64, string or time.Time; a nil pointer to
\* RawSQL or Identifier is no supported type and fails with "unknown type".
NullForNilPrimitive ==
    (Called /\ val.valuer = "" /\ val.isNil) =>
        /\ val.type \in {"nil", "*bool", "*int", "*int64", "*float64", "[]uint8",
                         "*string", "*time.Time"} =>
                res.err = NoErr /\ res.lit = Null
        /\ val.type \in {"*sqltemplate.RawSQL", "*sqltemplate.Identifier"} =>
                res.err = "unknown type " \o val.type /\ res.lit = <<>>

\* a nil *string has been encoded
NullForNilPrimitiveWitness ==
    /\ Called
    /\ val = NilOf("*string")
    /\ res = Result(Null, NoErr, "*string")

\* C10 as stated: a signed integer of any width is encoded as its decimal
\* text.
DecimalForEveryWidth ==
    (Called /\ val.valuer = ""
        /\ val.type \in {"int", "int8", "int16", "int32", "int64"}) =>
        res.err = NoErr /\ IsDecimalOf(res.lit, val.num)

\* C10 amended: an int or an int64 (or a non-nil pointer to one) is encoded
\* as its decimal text, no leading zeros, a minus sign for negatives; the
\* other widths (int8, int16, int32) fail with "unknown type".
DecimalForIntAndInt64 ==
    (Called /\ val.valuer = "" /\ ~val.isNil) =>
        /\ val.type \in {"int", "int64", "*int", "*int64"} =>
                res.err = NoErr /\ IsDecimalOf(res.lit, val.num)
        /\ val.type \in {"int8", "int16", "int32"} =>
                res.err = "unknown type " \o val.type /\ res.lit = <<>>

\* a negative two-digit int64 has been encoded
DecimalForIntAndInt64Witness ==
    /\ Called
    /\ val = IntValue("int64", -10)
    /\ res.lit = <<"-", "1", "0">>

\* the value of an upper-case hexadecimal digit, -1 for any other character
HexDigitValue(c) ==
    IF \E d \in 1..16 : HexChars[d] = c
    THEN (CHOOSE d \in 1..16 : HexChars[d] = c) - 1
    ELSE -1

\* C11: for a byte sequence PostgresLiteral succeeds; it returns NULL for
\* the nil sequence and otherwise '\x, two upper-case hexadecimal digits for
\* every byte, and a closing quote; the empty non-nil sequence gives '\x'.
BytesLiteralHex ==
    (Called /\ val.valuer = "" /\ val.type = "[]uint8") =>
        /\ res.err = NoErr
        /\ IF val.isNil THEN res.lit = Null
           ELSE /\ Len(res.lit) = 2 * Len(val.bytes) + 4
                /\ SubSeq(res.lit, 1, 3) = <<"'", "\\", "x">>
                /\ res.lit[Len(res.lit)] = "'"
                /\ \A i \in DOMAIN val.bytes :
                        /\ HexDigitValue(res.lit[2 * i + 2]) >= 0
                        /\ HexDigitValue(res.lit[2 * i + 3]) >= 0
                        /\ 16 * HexDigitValue(res.lit[2 * i + 2])
                                + HexDigitValue(res.lit[2 * i + 3]) = val.bytes[i]
                /\ val.bytes = <<>> => res.lit = <<"'", "\\", "x", "'">>

\* the bytes 0x74 0xFF have been encoded
BytesLiteralHexWitness ==
    /\ Called
    /\ val = BytesValue(<<116, 255>>)
    /\ res.lit = <<"'", "\\", "x", "7", "4", "F", "F", "'">>

\* C12: for a RawSQL fragment, whatever its characters, PostgresLiteral
\* succeeds and returns the fragment itself, unmodified.
RawSQLVerbatim ==
    (Called /\ val.valuer = "" /\ val.type = "sqltemplate.RawSQL") =>
        res.err = NoErr /\ res.lit = val.str

\* the fragment '; has been encoded
RawSQLVerbatimWitness ==
    /\ Called
    /\ val = StrValue("sqltemplate.RawSQL", <<"'", ";">>)
    /\ res = Result(<<"'", ";">>, NoErr, "sqltemplate.RawSQL")

\* C13: for an Identifier PostgresLiteral succeeds and returns " then the
\* identifier with every " doubled then ": between the outer quotes the
\* double quotes come in adjacent pairs only, reading each pair as one gives
\* back the identifier, and the single quotes are as many as before.
IdentifierQuoted ==
    (Called /\ val.valuer = "" /\ val.type = "sqltemplate.Identifier") =>
        /\ res.err = NoErr
        /\ Len(res.lit) = Len(val.str) + Count(val.str, "\"") + 2
        /\ res.lit[1] = "\""
        /\ res.lit[Len(res.lit)] = "\""
        /\ Paired(Inner(res.lit), "\"")
        /\ Undouble(Inner(res.lit), "\"") = val.str
        /\ Count(res.lit, "'") = Count(val.str, "'")

\* an identifier with a double quote and a single quote has been encoded
IdentifierQuotedWitness ==
    /\ Called
    /\ val = StrValue("sqltemplate.Identifier", <<"\"", "'">>)
    /\ res.lit = <<"\"", "\"", "\"", "'", "\"">>

\* every pipe of n: of actions, of if/range/with, and inside arguments
RECURSIVE AllPipes(_)
AllPipes(n) ==
    CASE n.type = "Action" -> AllPipes(n.Pipe)
      [] n.type \in {"If", "Range", "With"} ->
            AllPipes(n.Pipe) \o AllPipes(n.List) \o AllPipes(n.ElseList)
      [] n.type = "List" -> Flatten([i \in DOMAIN n.Nodes |-> AllPipes(n.Nodes[i])])
      [] n.type = "Pipe" ->
            <<n>> \o Flatten([i \in DOMAIN n.Cmds |-> AllPipes(n.Cmds[i])])
      [] n.type = "Command" -> Flatten([i \in DOMAIN n.Args |-> AllPipes(n.Args[i])])
      [] OTHER -> <<>>

\* {{$v := .}}{{$v}}
VarTree ==
    Tree(ListNode(<<ActionNode(PipeNode(<<"$v">>, <<CommandNode(<<DotNode>>, 1)>>)),
                    ActionNode(VarPipe)>>))

\* C4: escapeTree gives no sqlliteral to a pipe that declares variables, so
\* the variable holds the raw value, and a later action that emits the
\* variable is escaped on its own: {{$v := .}}{{$v}} writes the literal of
\* its input once ('A' for "A").
DeclaringPipesRaw ==
    LET before == AllPipes(orig.Root)
        after == AllPipes(tree.Root)
    IN  /\ Len(after) = Len(before)
        /\ \A i \in DOMAIN before : Len(before[i].Decl) > 0 => after[i] = before[i]
        /\ (phase # "parsed" /\ orig = VarTree) =>
            /\ ExecuteTree(tree, StrValue("string", <<"A">>)).out = <<"'", "A", "'">>
            /\ \A x \in Strings :
                LET r == ExecuteTree(tree, StrValue("string", x))
                IN  /\ r.err = NoErr
                    /\ r.vars["$v"] = StrValue("string", x)
                    /\ r.out = <<"'">> \o ReplaceAll(x, "'", <<"'", "'">>) \o <<"'">>

\* {{$v := .}}{{$v}} has been escaped: the second action only
DeclaringPipesRawWitness ==
    /\ phase = "escaped"
    /\ orig = VarTree
    /\ tree # orig
    /\ ActionPipes(tree.Root)[1] = ActionPipes(orig.Root)[1]
    /\ EndsWithSqlliteral(ActionPipes(tree.Root)[2])

\* the if, range and with nodes of n, the nested ones included, in source
\* order
RECURSIVE BranchNodes(_)
BranchNodes(n) ==
    CASE n.type \in {"If", "Range", "With"} ->
            <<n>> \o BranchNodes(n.List) \o BranchNodes(n.ElseList)
      [] n.type = "List" ->
            Flatten([i \in DOMAIN n.Nodes |-> BranchNodes(n.Nodes[i])])
      [] OTHER -> <<>>

\* C16: escapeTree never modifies the pipe of an if, range or with node: the
\* node's own pipe is after rewriting what it was as parsed, while every
\* output-producing action pipe in its body and else-body ends with
\* sqlliteral.
ConditionsUntouched ==
    LET before == BranchNodes(orig.Root)
        after == BranchNodes(tree.Root)
    IN  /\ Len(after) = Len(before)
        /\ \A i \in DOMAIN after :
              /\ after[i].type = before[i].type
              /\ after[i].Pipe = before[i].Pipe
              /\ phase # "parsed" =>
                    LET inside == ActionPipes(after[i].List)
                                    \o ActionPipes(after[i].ElseList)
                    IN  \A j \in DOMAIN inside :
                            OutputProducing(inside[j]) => EndsWithSqlliteral(inside[j])

\* a range over `.` has been escaped: its own pipe is still `.`, the same
\* pipe in the action of its body has gained sqlliteral
ConditionsUntouchedWitness ==
    /\ phase = "escaped"
    /\ Len(tree.Root.Nodes) = 1
    /\ tree.Root.Nodes[1].type = "Range"
    /\ tree.Root.Nodes[1].Pipe = DotPipe
    /\ orig.Root.Nodes[1].List.Nodes[1] = ActionNode(DotPipe)
    /\ tree.Root.Nodes[1].List.Nodes[1].Pipe.Cmds
            = <<CommandNode(<<DotNode>>, 1), SqlliteralCommand(CommandNode(<<DotNode>>, 1))>>

\* the pipe a is the pipe b, or b with one bare sqlliteral command appended
\* where b declares nothing, has a command, and does not end with one
GrownByOne(b, a) ==
    \/ a = b
    \/ /\ Len(b.Decl) = 0
       /\ Len(b.Cmds) >= 1
       /\ ~IsSqlliteral(b.Cmds[Len(b.Cmds)])
       /\ a.Decl = b.Decl
       /\ Len(a.Cmds) = Len(b.Cmds) + 1
       /\ SubSeq(a.Cmds, 1, Len(b.Cmds)) = b.Cmds
       /\ IsSqlliteral(a.Cmds[Len(a.Cmds)])

\* the node a is the node b but for action pipes grown by one
RECURSIVE OnlyAppended(_, _)
OnlyAppended(b, a) ==
    /\ a.type = b.type
    /\ CASE b.type = "Action" -> GrownByOne(b.Pipe, a.Pipe)
         [] b.type \in {"If", "Range", "With"} ->
               /\ a.Pipe = b.Pipe
               /\ OnlyAppended(b.List, a.List)
               /\ OnlyAppended(b.ElseList, a.ElseList)
         [] b.type = "List" ->
               /\ a.isNil = b.isNil
               /\ ~b.isNil =>
                     /\ Len(a.Nodes) = Len(b.Nodes)
                     /\ \A i \in DOMAIN b.Nodes : OnlyAppended(b.Nodes[i], a.Nodes[i])
         [] OTHER -> a = b

\* C17: the only change a pass of escapeTree makes is one bare sqlliteral
\* command appended as the last command of an eligible action pipe: the
\* commands that were there keep their content and order, pipes inside
\* arguments and every other node are as before, and no pipe grows by more
\* than one command in a pass.
OnlyAppendsSqlliteral ==
    /\ OnlyAppended(prev.Root, tree.Root)
    /\ phase = "escaped" => OnlyAppended(orig.Root, tree.Root)

\* `print | sqlliteral (.)` has been escaped: its two commands are as
\* written, the sub-pipeline included, and a third one follows; next to it
\* is a body with a template call, whose argument is as written
OnlyAppendsSqlliteralWitness ==
    /\ phase = "escaped"
    /\ \E i \in DOMAIN BranchNodes(tree.Root) :
        LET e == BranchNodes(tree.Root)[i].ElseList
        IN  /\ ~e.isNil
            /\ Len(e.Nodes) = 3
            /\ EndsWithSqlliteral(e.Nodes[2].Pipe)
            /\ e.Nodes[3] = TemplateNode("x", DotPipe)
    /\ \E i \in DOMAIN ActionPipes(tree.Root) :
        LET b == ActionPipes(orig.Root)[i]
            a == ActionPipes(tree.Root)[i]
        IN  /\ Len(b.Cmds) = 2
            /\ Len(b.Cmds[2].Args) = 2
            /\ b.Cmds[2].Args[2] = SubPipe
            /\ Len(a.Cmds) = 3
            /\ a.Cmds[1] = b.Cmds[1]
            /\ a.Cmds[2] = b.Cmds[2]
            /\ IsSqlliteral(a.Cmds[3])

(***************************************************************************)
(* text/template, as template.go calls it.  A world is the memory the      *)
(* facade works on: the trees, the Template objects and their name spaces. *)
(* A Template object has a name, the address of its Tree (0 when nil) and  *)
(* the address of the common structure it shares with its associates.      *)
(***************************************************************************)
Names == {"", "a", "b"}

\* a fixed order of the names, for the loops over a name space
NameSeq == <<"", "a", "b">>

World == [heap |-> heap, tmpls |-> tmpls, nss |-> nss]

\* template.New(name).Funcs(funcs) and new(template.Template).Funcs(funcs):
\* a template with a name space of its own, holding nothing
TextNew(w, name) ==
    [w EXCEPT !.tmpls = Append(@, [name |-> name, Tree |-> 0,
                                   common |-> Len(w.nss) + 1]),
              !.nss = Append(@, [n \in Names |-> 0])]

\* (*template.Template).New: an associated template, not yet in the name space
TextTemplateNew(w, t, name) ==
    [w EXCEPT !.tmpls = Append(@, [name |-> name, Tree |-> 0,
                                   common |-> w.tmpls[t].common])]

\* parse.IsEmptyTree
IsEmptyTree(root) ==
    \/ root.isNil
    \/ \A i \in DOMAIN root.Nodes :
          /\ root.Nodes[i].type = "Text"
          /\ \A j \in DOMAIN root.Nodes[i].Text : root.Nodes[i].Text[j] = " "

\* (*template.Template).AddParseTree with associate: a template of another
\* name is a new object; an empty tree does not replace a defined template,
\* and a new object that is not put in the name space is dropped
TextAddParseTree(w, t, name, id) ==
    LET same == name = w.tmpls[t].name
        w1 == IF same THEN w ELSE TextTemplateNew(w, t, name)
        nt == IF same THEN t ELSE Len(w1.tmpls)
        c == w.tmpls[t].common
        old == w.nss[c][name]
        keep == /\ old # 0
                /\ IsEmptyTree(w.heap[id].Root)
                /\ w.tmpls[old].Tree # 0
    IN  IF keep
        THEN IF same /\ w.tmpls[t].Tree = 0
             THEN [w EXCEPT !.tmpls[t].Tree = id]
             ELSE w
        ELSE [w1 EXCEPT !.nss[c][name] = nt, !.tmpls[nt].Tree = id]

\* the template texts of the model
SrcAction == "A{{.}}B"

SrcIf == "{{if .}}{{.}}{{else}}C{{end}}"

SrcDefine == "{{define \"b\"}}{{.}}{{end}}"

SrcBad == "{{"

\* the text of the tree the caller parses with text/template itself
SrcCaller == "T{{.}}"

Texts == {SrcAction, SrcIf, SrcDefine, SrcBad}

Named(name, nodes) == [name |-> name, root |-> ListNode(nodes)]

\* parse.Parse(name, text, ...): the trees of the text by name, or the error.
\* The tree called name is always there, empty when the text only defines
\* other templates; a definition under the same name takes its place.
ParseText(name, text) ==
    CASE text = SrcAction ->
            [err |-> NoErr,
             trees |-> << Named(name, <<TextNode(<<"A">>), ActionNode(DotPipe),
                                        TextNode(<<"B">>)>>) >>]
      [] text = SrcCaller ->
            [err |-> NoErr,
             trees |-> << Named(name, <<TextNode(<<"T">>), ActionNode(DotPipe)>>) >>]
      [] text = SrcIf ->
            [err |-> NoErr,
             trees |-> << Named(name,
                            <<BranchNode("If", DotPipe,
                                         ListNode(<<ActionNode(DotPipe)>>),
                                         ListNode(<<TextNode(<<"C">>)>>))>>) >>]
      [] text = SrcDefine ->
            [err |-> NoErr,
             trees |-> IF name = "b"
                       THEN << Named("b", <<ActionNode(DotPipe)>>) >>
                       ELSE << Named(name, <<>>),
                               Named("b", <<ActionNode(DotPipe)>>) >>]
      [] OTHER ->
            [err |-> "template: " \o name \o ":1: unclosed action", trees |-> <<>>]

RECURSIVE AddTrees(_, _, _)
\* the loop of (*template.Template).Parse over the parsed trees
AddTrees(w, t, trees) ==
    IF trees = <<>> THEN w
    ELSE LET w1 == [w EXCEPT !.heap = Append(@, Tree(Head(trees).root))]
         IN  AddTrees(TextAddParseTree(w1, t, Head(trees).name, Len(w1.heap)),
                      t, Tail(trees))

\* (*template.Template).Parse: nothing is added when the text does not parse
TextParse(w, t, text) ==
    LET p == ParseText(w.tmpls[t].name, text)
    IN  IF p.err # NoErr THEN [w |-> w, err |-> p.err]
        ELSE [w |-> AddTrees(w, t, p.trees), err |-> NoErr]

\* the files of the model: a parses, b does not, any other does not exist
readFile(filename) ==
    CASE filename = "a" -> [name |-> "a", text |-> SrcAction, err |-> NoErr]
      [] filename = "b" -> [name |-> "b", text |-> SrcBad, err |-> NoErr]
      [] OTHER -> [name |-> filename, text |-> "",
                   err |-> "open " \o filename \o ": no such file or directory"]

RECURSIVE parseFiles(_, _, _)
\* the loop of text/template's parseFiles: each file is parsed into t's name
\* space as it is read, so the files before a failing one stay there
parseFiles(w, t, filenames) ==
    IF filenames = <<>> THEN [w |-> w, err |-> NoErr]
    ELSE LET f == readFile(Head(filenames))
             same == f.name = w.tmpls[t].name
             w1 == IF same THEN w ELSE TextTemplateNew(w, t, f.name)
             tmpl == IF same THEN t ELSE Len(w1.tmpls)
             r == TextParse(w1, tmpl, f.text)
         IN  IF f.err # NoErr THEN [w |-> w, err |-> f.err]
             ELSE IF r.err # NoErr THEN [w |-> w, err |-> r.err]
             ELSE parseFiles(r.w, t, Tail(filenames))

\* (*template.Template).ParseFiles
TextParseFiles(w, t, filenames) ==
    IF filenames = <<>>
    THEN [w |-> w, err |-> "template: no files named in call to ParseFiles"]
    ELSE parseFiles(w, t, filenames)

\* filepath.Glob and fs.Glob over the files of the model
Glob(pattern) ==
    CASE pattern = "*" -> [list |-> <<"a", "b">>, err |-> NoErr]
      [] pattern = "a" -> [list |-> <<"a">>, err |-> NoErr]
      [] pattern = "[" -> [list |-> <<>>, err |-> "syntax error in pattern"]
      [] OTHER -> [list |-> <<>>, err |-> NoErr]

NoMatch(pkg, pattern) == pkg \o ": pattern matches no files: " \o pattern

\* (*template.Template).ParseGlob
TextParseGlob(w, t, pattern) ==
    LET g == Glob(pattern)
    IN  IF g.err # NoErr THEN [w |-> w, err |-> g.err]
        ELSE IF g.list = <<>> THEN [w |-> w, err |-> NoMatch("template", pattern)]
        ELSE parseFiles(w, t, g.list)

RECURSIVE GlobAll(_)
\* the loop of text/template's parseFS over the patterns
GlobAll(patterns) ==
    IF patterns = <<>> THEN [list |-> <<>>, err |-> NoErr]
    ELSE LET g == Glob(Head(patterns))
             rest == GlobAll(Tail(patterns))
         IN  IF g.err # NoErr THEN g
             ELSE IF g.list = <<>>
             THEN [list |-> <<>>, err |-> NoMatch("template", Head(patterns))]
             ELSE IF rest.err # NoErr THEN rest
             ELSE [list |-> g.list \o rest.list, err |-> NoErr]

\* (*template.Template).ParseFS
TextParseFS(w, t, patterns) ==
    LET g == GlobAll(patterns)
    IN  IF g.err # NoErr THEN [w |-> w, err |-> g.err]
        ELSE TextParseFiles(w, t, g.list)

RECURSIVE CloneNames(_, _, _, _)
\* the loop of (*template.Template).Clone over t's name space: the entry
\* under t's own name becomes the clone nt, every other template is copied
CloneNames(w, t, nt, names) ==
    IF names = <<>> THEN w
    ELSE LET k == Head(names)
             v == w.nss[w.tmpls[t].common][k]
             c == w.tmpls[nt].common
             w1 == IF v = 0 THEN w
                   ELSE IF k = w.tmpls[t].name THEN [w EXCEPT !.nss[c][k] = nt]
                   ELSE [w EXCEPT !.tmpls = Append(@, [w.tmpls[v] EXCEPT !.common = c]),
                                  !.nss[c][k] = Len(w.tmpls) + 1]
         IN  CloneNames(w1, t, nt, Tail(names))

\* (*template.Template).Clone: the clone nt is made first,
\* with a name space of its own; the Tree pointers are shared
TextClone(w, t) ==
    LET nt == Len(w.tmpls) + 1
        w1 == [w EXCEPT !.tmpls = Append(@, [w.tmpls[t] EXCEPT !.common = Len(w.nss) + 1]),
                        !.nss = Append(@, [n \in Names |-> 0])]
    IN  [w |-> CloneNames(w1, t, nt, NameSeq), t |-> nt]

\* (*template.Template).Lookup: nil (0) when no template has the name
TextLookup(w, t, name) == w.nss[w.tmpls[t].common][name]

\* (*template.Template).Templates
TextTemplates(w, t) ==
    { w.nss[w.tmpls[t].common][n] : n \in Names } \ {0}

Ran(r) == [out |-> r.out, err |-> r.err, enc |-> r.enc, steps |-> r.steps]

Incomplete(pkg, name) ==
    pkg \o ": \"" \o name \o "\" is an incomplete or empty template"

\* (*template.Template).Execute
TextExecute(w, t, data) ==
    IF w.tmpls[t].Tree = 0 \/ w.heap[w.tmpls[t].Tree].Root.isNil
    THEN [NotRun EXCEPT !.err = Incomplete("template", w.tmpls[t].name)]
    ELSE Ran(ExecuteTree(w.heap[w.tmpls[t].Tree], data))

(***************************************************************************)
(* template.go                                                             *)
(***************************************************************************)
\* (*Template).init: a *Template is the address of the text/template object
\* it wraps, 0 for a Template whose text is nil, which gets its object here
init(w, t) ==
    IF t = 0 THEN [w |-> TextNew(w, ""), t |-> Len(w.tmpls) + 1]
    ELSE [w |-> w, t |-> t]

\* the templates whose Tree is nil: escapeTree(nil) dereferences it
NilTrees(w, t) == { x \in TextTemplates(w, t) : w.tmpls[x].Tree = 0 }

\* what the loop of escapeTemplate can have visited when it returns: every
\* template, or, when one has a nil Tree and the loop panics there, any of
\* the others (Templates lists a map, in no fixed order)
Visits(w, t) ==
    IF NilTrees(w, t) = {} THEN {TextTemplates(w, t)}
    ELSE SUBSET (TextTemplates(w, t) \ NilTrees(w, t))

\* escapeTemplate, having visited the templates of S: their trees are
\* rewritten in place
escapeTemplate(w, S) ==
    [w EXCEPT !.heap =
        [i \in DOMAIN w.heap |->
            IF \E x \in S : w.tmpls[x].Tree = i
            THEN escapeTree(w.heap[i]) ELSE w.heap[i]]]

NilDereference == "panic: runtime error: invalid memory address or nil pointer dereference"

(***************************************************************************)
(* The facade as a state machine.  The caller constructs its templates and *)
(* then looks one up or executes one ("Once the templates are constructed, *)
(* they can be executed in parallel", template.go:224): last is NoCall     *)
(* during construction and holds what the look-up or the execution         *)
(* returned after it.  Every Template object of the world is one the       *)
(* caller can hold (New, Lookup and Templates hand them out); an object    *)
(* that a failed call made and returned to nobody is not kept.             *)
(***************************************************************************)
\* the trees and Template objects the memory of the model has room for
MaxObjects == 5

FileLists == { <<>>, <<"a">>, <<"a", "b">>, <<"m">> }

Patterns == { "*", "a", "z*", "[" }

PatternLists == { <<>>, <<"a">>, <<"a", "*">>, <<"z*">>, <<"[">> }

\* the data Execute is given: a string, a value of a type the encoder does
\* not support, and a Valuer whose Value() fails
ExecData ==
    { StrValue("string", <<"a", "'">>), OtherValue("struct {}"),
      Valuer("sql.NullTime", NilValue, "sql: conversion failed") }

\* the *Template values a method is called on: z while its text is nil,
\* and the wrappers of the objects (z among them once it has one)
Receivers == (IF zero = 0 THEN {0} ELSE {}) \cup DOMAIN tmpls

Constructing == last = NoCall

Fits(w) == Len(w.heap) + Len(w.tmpls) <= MaxObjects

\* the world after a call made during construction
Commit(w) ==
    /\ Fits(w)
    /\ heap' = w.heap
    /\ tmpls' = w.tmpls
    /\ nss' = w.nss
    /\ UNCHANGED <<last, escVars, litVars>>

\* what a look-up or an execution returned
Return(call) ==
    /\ last' = call
    /\ UNCHANGED <<heap, tmpls, nss, owned, zero, escVars, litVars>>

\* z.text after a method that starts with init was called on t
Inited(t) == IF t = 0 THEN Len(tmpls) + 1 ELSE zero

\* the end of Parse, ParseFiles, ParseGlob and ParseFS on t, r being what
\* text/template returned: nil and the error, or escapeTemplate and t
Finish(t, r) ==
    IF r.err # NoErr
    THEN Commit(r.w)
    ELSE \E S \in Visits(r.w, t) : Commit(escapeTemplate(r.w, S))

\* the same for the package-level functions, whose New(...) is lost with
\* everything parsed into it when nil is returned
FinishNew(t, r) ==
    IF r.err # NoErr
    THEN Commit(World)
    ELSE Finish(t, r)

InitFacade ==
    /\ FacadeIdle
    /\ EscapeIdle
    /\ LiteralIdle

\* New(name)
New ==
    /\ Constructing
    /\ \E name \in {"a"} :
           /\ Commit(TextNew(World, name))
           /\ UNCHANGED <<owned, zero>>

\* t.New(name)
Template_New ==
    /\ Constructing
    /\ \E t \in Receivers, name \in {"b"} :
           LET i == init(World, t)
           IN  /\ Commit(TextTemplateNew(i.w, i.t, name))
               /\ zero' = Inited(t)
               /\ UNCHANGED owned

\* t.Parse(text)
ParseInto(t, text) ==
    LET i == init(World, t)
    IN  /\ Finish(i.t, TextParse(i.w, i.t, text))
        /\ zero' = Inited(t)
        /\ UNCHANGED owned

Template_Parse ==
    /\ Constructing
    /\ \E t \in Receivers, text \in Texts : ParseInto(t, text)

\* t.ParseFiles(filenames...)
Template_ParseFiles ==
    /\ Constructing
    /\ \E t \in Receivers, filenames \in FileLists :
           LET i == init(World, t)
           IN  /\ Finish(i.t, TextParseFiles(i.w, i.t, filenames))
               /\ zero' = Inited(t)
               /\ UNCHANGED owned

\* t.ParseGlob(pattern)
Template_ParseGlob ==
    /\ Constructing
    /\ \E t \in Receivers, pattern \in Patterns :
           LET i == init(World, t)
           IN  /\ Finish(i.t, TextParseGlob(i.w, i.t, pattern))
               /\ zero' = Inited(t)
               /\ UNCHANGED owned

\* t.ParseFS(fsys, patterns...)
Template_ParseFS ==
    /\ Constructing
    /\ \E t \in Receivers, patterns \in PatternLists :
           LET i == init(World, t)
           IN  /\ Finish(i.t, TextParseFS(i.w, i.t, patterns))
               /\ zero' = Inited(t)
               /\ UNCHANGED owned

\* ParseFiles(filenames...)
ParseFiles ==
    /\ Constructing
    /\ \E filenames \in FileLists :
           LET t == Len(tmpls) + 1
           IN  /\ IF filenames = <<>>
                  THEN Commit(World)
                  ELSE FinishNew(t, TextParseFiles(TextNew(World, Head(filenames)),
                                                   t, filenames))
               /\ UNCHANGED <<owned, zero>>

\* ParseGlob(pattern)
ParseGlob ==
    /\ Constructing
    /\ \E pattern \in Patterns :
           LET t == Len(tmpls) + 1
               g == Glob(pattern)
           IN  /\ IF g.err # NoErr \/ g.list = <<>>
                  THEN Commit(World)
                  ELSE FinishNew(t, TextParseFiles(TextNew(World, Head(g.list)),
                                                   t, g.list))
               /\ UNCHANGED <<owned, zero>>

\* ParseFS(fsys, patterns...)
ParseFS ==
    /\ Constructing
    /\ \E patterns \in PatternLists :
           LET t == Len(tmpls) + 1
               g == Glob(Head(patterns))
           IN  /\ IF patterns = <<>> \/ g.err # NoErr \/ g.list = <<>>
                  THEN Commit(World)
                  ELSE FinishNew(t, TextParseFS(TextNew(World, Head(g.list)),
                                                t, patterns))
               /\ UNCHANGED <<owned, zero>>

\* tree := template.Must(template.New("text").Parse(text)).Tree, in the
\* caller's own code: a tree that text/template owns, never escaped
CallerParse ==
    /\ Constructing
    /\ \E text \in {SrcCaller} :
           LET w == [World EXCEPT !.heap =
                       Append(@, Tree(ParseText("text", text).trees[1].root))]
           IN  /\ Commit(w)
               /\ owned' = owned \cup {Len(w.heap)}
               /\ UNCHANGED zero

\* a Copy that hands back the tree it was given
TreeCopyAliased(w, id) == [w |-> w, id |-> id]

\* tree.Copy(): a new tree in memory, node by node equal to the one copied
TreeCopy(w, id) ==
    [w |-> [w EXCEPT !.heap = Append(@, CopyTree(w.heap[id]))], id |-> Len(w.heap) + 1]

\* t.AddParseTree(name, tree): the copy is rewritten in place, then added
Template_AddParseTree ==
    /\ Constructing
    /\ \E t \in Receivers, name \in {"", "a"}, id \in owned :
           LET i == init(World, t)
               c == TreeCopy(i.w, id)
               w1 == [c.w EXCEPT !.heap[c.id] = escapeTree(@)]
           IN  /\ Commit(TextAddParseTree(w1, i.t, name, c.id))
               /\ zero' = Inited(t)
               /\ UNCHANGED owned

\* t.Clone()
Template_Clone ==
    /\ Constructing
    /\ \E t \in Receivers :
           /\ IF t = 0 THEN Commit(World) ELSE Commit(TextClone(World, t).w)
           /\ UNCHANGED <<owned, zero>>

\* t.Lookup(name): nil, or the wrapper of the object found
Template_Lookup ==
    /\ Constructing
    /\ \E t \in Receivers, name \in Names :
           Return([NoCall EXCEPT !.op = "Lookup",
                                 !.ret = IF t = 0 THEN 0 ELSE TextLookup(World, t, name)])

Executed(data, run) ==
    [NoCall EXCEPT !.op = "Execute", !.err = run.err, !.data = data, !.run = run]

\* t.Execute(w, data)
Template_Execute ==
    /\ Constructing
    /\ \E t \in Receivers, data \in ExecData :
           LET run == IF t = 0
                      THEN [NotRun EXCEPT !.err = Incomplete("sqltemplate", "")]
                      ELSE TextExecute(World, t, data)
           IN  Return(Executed(data, run))

\* t.ExecuteTemplate(w, name, data)
Template_ExecuteTemplate ==
    /\ Constructing
    /\ \E t \in Receivers, name \in Names, data \in ExecData :
           LET tmpl == IF t = 0 THEN 0 ELSE TextLookup(World, t, name)
               run == IF tmpl = 0
                      THEN [NotRun EXCEPT !.err =
                               "sqltemplate: no template \"" \o name \o "\" associated"]
                      ELSE TextExecute(World, tmpl, data)
           IN  Return(Executed(data, run))

Next ==
    \/ New
    \/ Template_New
    \/ Template_Parse
    \/ Template_ParseFiles
    \/ Template_ParseGlob
    \/ Template_ParseFS
    \/ ParseFiles
    \/ ParseGlob
    \/ ParseFS
    \/ CallerParse
    \/ Template_AddParseTree
    \/ Template_Clone
    \/ Template_Lookup
    \/ Template_Execute
    \/ Template_ExecuteTemplate

Spec == InitFacade /\ [][Next]_vars

(***************************************************************************)
(* Claims about the facade.                                                *)
(***************************************************************************)
\* every action pipe of the tree that declares no variable ends with the
\* sqlliteral command
Escaped(t) ==
    \A i \in DOMAIN ActionPipes(t.Root) :
        LET p == ActionPipes(t.Root)[i]
        IN  OutputProducing(p) => EndsWithSqlliteral(p)

\* the templates Execute and ExecuteTemplate can run: those with a Tree
Runnable == { t \in DOMAIN tmpls : tmpls[t].Tree # 0 }

\* C1: after any sequence of facade operations, failed ones included, the
\* body of every template that Execute or ExecuteTemplate can run is
\* escaped: each action pipe without declarations ends with sqlliteral.
EveryBodyEscaped == \A t \in Runnable : Escaped(heap[tmpls[t].Tree])

\* C6: when the encoder fails for the value of an action, Execute returns an
\* error, the failing action is the last node evaluated and writes nothing,
\* and the output is exactly what the nodes before it wrote.
EncoderErrorAborts ==
    (last.op = "Execute" /\ last.run.enc # NoErr) =>
        LET steps == last.run.steps
            n == Len(steps)
        IN  /\ last.err # NoErr
            /\ n > 0
            /\ steps[n].node = "Action"
            /\ steps[n].enc = last.run.enc
            /\ steps[n].wrote = <<>>
            /\ \A i \in 1..(n - 1) : steps[i].enc = NoErr
            /\ last.run.out = Flatten([i \in 1..(n - 1) |-> steps[i].wrote])

\* A{{.}}B executed on a struct{}: A is written, then the encoder fails on
\* the action and neither its value nor B follows
EncoderErrorAbortsWitness ==
    /\ last.op = "Execute"
    /\ last.data = OtherValue("struct {}")
    /\ last.run.enc = "unknown type struct {}"
    /\ last.err # NoErr
    /\ last.run.out = <<"A">>
\* no command of any pipe of the tree is a bare sqlliteral
NoSqlliteral(t) ==
    \A i \in DOMAIN AllPipes(t.Root) :
        \A j \in DOMAIN AllPipes(t.Root)[i].Cmds :
            ~IsSqlliteral(AllPipes(t.Root)[i].Cmds[j])

QuoteData == StrValue("string", <<"a", "'">>)

\* C14: AddParseTree leaves the caller's parse tree as it was: in every
\* AddParseTree step each tree of the caller is the same tree after as
\* before, still has no sqlliteral command and still writes its data
\* unescaped, while the tree the step added is a new one, belongs to a
\* template of the name space, ends its action with sqlliteral and writes
\* the data as a literal.
AddParseTreeCopies ==
    [][Template_AddParseTree =>
        /\ \A id \in owned :
              /\ heap'[id] = heap[id]
              /\ NoSqlliteral(heap'[id])
              /\ Ran(ExecuteTree(heap'[id], QuoteData)).out = <<"T", "a", "'">>
        /\ Len(heap') = Len(heap) + 1
        /\ \E t \in DOMAIN tmpls' :
              /\ tmpls'[t].Tree = Len(heap')
              /\ nss'[tmpls'[t].common][tmpls'[t].name] = t
              /\ Escaped(heap'[tmpls'[t].Tree])
              /\ Ran(ExecuteTree(heap'[tmpls'[t].Tree], QuoteData)).out
                    = <<"T", "'", "a", "'", "'", "'">>
    ]_vars

\* a template holds the rewritten copy of a tree of the caller, which is
\* still as parsed
AddParseTreeCopiesWitness ==
    \E id \in owned, t \in DOMAIN tmpls :
        /\ tmpls[t].Tree # 0
        /\ tmpls[t].Tree # id
        /\ heap[tmpls[t].Tree] = escapeTree(CopyTree(heap[id]))
        /\ heap[tmpls[t].Tree] # heap[id]
        /\ NoSqlliteral(heap[id])
\* C15: a Parse into a template changes nothing of the templates of another
\* name space (a clone and its original are in two name spaces): each keeps
\* its tree, the tree is as it was and writes what it wrote before, and a
\* tree the Parse gave its receiver has its actions ending with sqlliteral.
CloneIsolated ==
    [][\A r \in DOMAIN tmpls, text \in Texts :
        (Constructing /\ ParseInto(r, text)) =>
            /\ \A t \in DOMAIN tmpls :
                  (tmpls[t].common # tmpls[r].common /\ tmpls[t].Tree # 0) =>
                      /\ tmpls'[t] = tmpls[t]
                      /\ heap'[tmpls[t].Tree] = heap[tmpls[t].Tree]
                      /\ Ran(ExecuteTree(heap'[tmpls[t].Tree], QuoteData))
                            = Ran(ExecuteTree(heap[tmpls[t].Tree], QuoteData))
            /\ (tmpls'[r].Tree # tmpls[r].Tree) => Escaped(heap'[tmpls'[r].Tree])
    ]_vars
\* the trees some template of the world holds
InUse == { tmpls[t].Tree : t \in DOMAIN tmpls } \ {0}

\* C18: once the body of a template is rewritten no later operation of the
\* facade writes to its tree: in every step, whatever it re-visits, each
\* rewritten tree a template holds is after the step the tree it was before,
\* so an execution that reads it sees no write.
RewrittenTreesFrozen ==
    [][\A i \in InUse : Escaped(heap[i]) => heap'[i] = heap[i]]_vars

\* a template and its clone hold the same rewritten tree, and the clone's
\* name space has since been given another body by a Parse, which visited
\* the shared tree again
RewrittenTreesFrozenWitness ==
    \E t1, t2, t3 \in DOMAIN tmpls :
        /\ tmpls[t1].common # tmpls[t2].common
        /\ tmpls[t3].common = tmpls[t2].common
        /\ tmpls[t1].Tree # 0
        /\ tmpls[t2].Tree = tmpls[t1].Tree
        /\ nss[tmpls[t2].common][tmpls[t2].name] = t2
        /\ nss[tmpls[t3].common][tmpls[t3].name] = t3
        /\ tmpls[t3].Tree > tmpls[t1].Tree
        /\ \A t \in DOMAIN tmpls :
              tmpls[t].common = tmpls[t1].common => tmpls[t].Tree # tmpls[t3].Tree
        /\ heap[tmpls[t3].Tree].Root.Nodes[1] # TextNode(<<"T">>)
        /\ Escaped(heap[tmpls[t1].Tree])
        /\ Len(ActionPipes(heap[tmpls[t1].Tree].Root)) > 0
\* {{sqlliteral .}} and {{.}}
SqlliteralDotTree ==
    Tree(ListNode(<<ActionNode(PipeNode(<<>>,
        <<CommandNode(<<IdentifierNode("sqlliteral", 1), DotNode>>, 1)>>))>>))

DotTree == Tree(ListNode(<<ActionNode(DotPipe)>>))

\* C19: encoding is idempotent on its own output: when PostgresLiteral
\* succeeds on a value, PostgresLiteral of the RawSQL it returned succeeds
\* and returns the same text; so {{sqlliteral .}}, which escapeTree gives a
\* second sqlliteral, writes what {{.}} writes, the literal once, and fails
\* when {{.}} fails.
EncodingIdempotent ==
    Called =>
        LET again == PostgresLiteral(RawSQL(res.lit))
            twice == Ran(ExecuteTree(escapeTree(SqlliteralDotTree), val))
            once == Ran(ExecuteTree(escapeTree(DotTree), val))
        IN  /\ res.err = NoErr => (again.err = NoErr /\ again.lit = res.lit)
            /\ TrailingSqlliterals(ActionPipes(escapeTree(SqlliteralDotTree).Root)[1].Cmds) = 1
            /\ Len(ActionPipes(escapeTree(SqlliteralDotTree).Root)[1].Cmds) = 2
            /\ twice.out = once.out
            /\ (twice.err = NoErr) <=> (once.err = NoErr)
            /\ (res.err = NoErr) <=> (twice.err = NoErr)
            /\ res.err = NoErr => twice.out = res.lit

\* a quote has been encoded, and {{sqlliteral .}} writes it quoted once
EncodingIdempotentWitness ==
    /\ Called
    /\ val = StrValue("string", <<"'">>)
    /\ res.lit = <<"'", "'", "'", "'">>
    /\ Ran(ExecuteTree(escapeTree(SqlliteralDotTree), val)).out = <<"'", "'", "'", "'">>
====
